---- MODULE Spec2Model ----
(***************************************************************************)
(* BookEasy: the booking lifecycle of the server (routes/bookings.js and   *)
(* routes/payments.js, both in src/unnamed/part_003) over the Booking and  *)
(* Provider models (src/server/models).                                    *)
(*                                                                         *)
(* Time is the JavaScript millisecond clock at minute resolution: every    *)
(* Date is a number of minutes since the model's epoch, a Monday 00:00     *)
(* in the server's time zone (taken as UTC, so that a date-only ISO string *)
(* parses to local midnight).  Strings that the code parses (HH:MM times)  *)
(* are sequences of one-character strings, so that split(':') and parseInt *)
(* are computed and not assumed.  Money is in cents; the prices used are   *)
(* whole dollars, so that amount * 0.5 is exact.                           *)
(*                                                                         *)
(* The bookings collection lives in MongoDB, outside the server process:   *)
(* the documents it holds when the server starts are an input.  Init draws *)
(* them from documents of the two shapes the handlers leave behind for a   *)
(* booking nobody has acted on yet (SeedShapes).                           *)
(***************************************************************************)
EXTENDS Integers, Sequences, FiniteSets, TLC

VARIABLES
  now,        \* the server clock, new Date()
  bookings,   \* the bookings collection: booking id -> document
  intents,    \* the payment gateway: booking id -> state of its payment intent
  events,     \* webhook events the gateway has emitted and not yet delivered
  query,      \* the availability question being answered, if any
  refunds,    \* the payment gateway: the refunds.create calls it was sent
  users,      \* the users collection: user id -> role, Deleted once removed
  providerUser \* the providers collection: provider id -> the document's user

vars == <<now, bookings, intents, events, query, refunds, users, providerUser>>

(***************************************************************************)
(* Bounds of the model                                                     *)
(***************************************************************************)
MaxBookings == 2      \* documents the bookings collection can hold
MaxTicks == 5         \* clock steps taken
TickMinutes == 480    \* length of one clock step
MaxReschedules == 1   \* entries of a booking's reschedule history
MaxRefunds == 2       \* refunds.create calls sent to the gateway

(***************************************************************************)
(* Program constants                                                       *)
(***************************************************************************)
MinutesPerHour == 60
HoursPerDay == 24
CancelHours == 2
RescheduleHours == 4
FullRefundHours == 24
PartialRefundHours == 2
Unset == -1           \* a Date or Number field that was never assigned

MinutesPerDay == HoursPerDay * MinutesPerHour

(***************************************************************************)
(* Strings as sequences of characters                                      *)
(***************************************************************************)
DigitChars == <<"0", "1", "2", "3", "4", "5", "6", "7", "8", "9">>

IsDigit(c) == \E i \in 1..Len(DigitChars) : DigitChars[i] = c

DigitVal(c) == (CHOOSE i \in 1..Len(DigitChars) : DigitChars[i] = c) - 1

\* parseInt(s): the leading decimal digits of s; NaN (Unset) when there are none
RECURSIVE ParseDigits(_, _)
ParseDigits(s, acc) ==
  IF s = <<>> \/ ~IsDigit(Head(s)) THEN acc
  ELSE ParseDigits(Tail(s), acc * 10 + DigitVal(Head(s)))

parseInt(s) ==
  IF s = <<>> \/ ~IsDigit(Head(s)) THEN Unset ELSE ParseDigits(s, 0)

\* s.split(':'): the pieces of s between its colons
RECURSIVE split(_)
split(s) ==
  IF \A i \in 1..Len(s) : s[i] # ":" THEN <<s>>
  ELSE LET i == CHOOSE k \in 1..Len(s) :
                  s[k] = ":" /\ \A j \in 1..(k - 1) : s[j] # ":"
       IN  <<SubSeq(s, 1, i - 1)>> \o split(SubSeq(s, i + 1, Len(s)))

\* Date.prototype.toTimeString().slice(0, 5) of a time of day given in minutes
toTimeString(mins) ==
  LET m  == mins % MinutesPerDay
      hh == m \div MinutesPerHour
      mm == m % MinutesPerHour
  IN  <<DigitChars[(hh \div 10) + 1], DigitChars[(hh % 10) + 1], ":",
        DigitChars[(mm \div 10) + 1], DigitChars[(mm % 10) + 1]>>

(***************************************************************************)
(* Users and providers (static here: no request of this model edits them)  *)
(***************************************************************************)
\* alice is a customer; pat and quinn registered as customers and then as
\* providers; rita registered with role provider (POST /api/auth/register
\* takes the role from the request) and has no provider profile; root is an
\* administrator
Users == {"alice", "pat", "quinn", "rita", "root"}

\* User.role
Role(u) ==
  IF u \in {"pat", "quinn", "rita"} THEN "provider"
  ELSE IF u = "root" THEN "admin"
  ELSE "customer"

T(a, b, c, d) == <<DigitChars[a + 1], DigitChars[b + 1], ":",
                   DigitChars[c + 1], DigitChars[d + 1]>>

\* The providers collection: Provider documents by id
Providers ==
  [P1 |-> [user |-> "pat",
           services |-> <<[name |-> "cut", duration |-> 30, price |-> 4000,
                           isActive |-> TRUE],
                          [name |-> "wax", duration |-> 60, price |-> 2500,
                           isActive |-> FALSE]>>,
           workingDays |-> <<[day |-> "tuesday", startTime |-> T(0,8,0,0),
                              endTime |-> T(1,6,0,0), isAvailable |-> TRUE],
                             [day |-> "wednesday", startTime |-> T(0,8,0,0),
                              endTime |-> T(1,6,0,0), isAvailable |-> FALSE]>>,
           blockedDates |-> <<>>],
   P2 |-> [user |-> "quinn",
           services |-> <<[name |-> "consult", duration |-> 45, price |-> 0,
                           isActive |-> TRUE]>>,
           workingDays |-> <<[day |-> "tuesday", startTime |-> T(0,8,0,0),
                              endTime |-> T(1,3,0,0), isAvailable |-> TRUE],
                             [day |-> "thursday", startTime |-> T(0,9,0,0),
                              endTime |-> T(1,2,4,5), isAvailable |-> TRUE]>>,
           blockedDates |-> <<[date |-> 8 * MinutesPerDay]>>]]

ProviderIds == DOMAIN Providers

\* Provider.findOne({ user }): the provider profile of a user, "none" if absent
ProviderOfUser(u) ==
  IF \E p \in ProviderIds : Providers[p].user = u
  THEN CHOOSE p \in ProviderIds : Providers[p].user = u
  ELSE "none"

(***************************************************************************)
(* Booking model (src/server/models/Booking.js)                            *)
(***************************************************************************)
BookingStatuses ==
  {"pending", "confirmed", "in-progress", "completed", "cancelled", "no-show"}

PaymentStatuses == {"pending", "succeeded", "failed", "cancelled"}

NoCancellation ==
  [cancelledBy |-> "none", cancelledAt |-> Unset, refundAmount |-> Unset,
   refundStatus |-> "none"]

\* local midnight of the day a Date falls on
StartOfDay(d) == d - (d % MinutesPerDay)

\* virtual appointmentDateTime: appointmentDate with its time of day replaced
\* by startTime (setHours(hours, minutes, 0, 0))
appointmentDateTime(b) ==
  LET parts == split(b.startTime)
  IN  StartOfDay(b.appointmentDate)
        + parseInt(parts[1]) * MinutesPerHour + parseInt(parts[2])

\* hoursUntilAppointment > h, with both sides scaled by the minutes of an hour
MoreThanHours(b, t, h) == appointmentDateTime(b) - t > h * MinutesPerHour

\* canBeCancelled with the two-hour instant itself allowed
canBeCancelled_AtLeast(b, t) ==
  appointmentDateTime(b) - t >= CancelHours * MinutesPerHour
    /\ b.status = "confirmed"

canBeCancelled(b, t) ==
  MoreThanHours(b, t, CancelHours) /\ b.status = "confirmed"

\* canBeRescheduled with the cancellation threshold in place of its own
canBeRescheduled_CancelHours(b, t) ==
  MoreThanHours(b, t, CancelHours) /\ b.status = "confirmed"

canBeRescheduled(b, t) ==
  MoreThanHours(b, t, RescheduleHours) /\ b.status = "confirmed"

\* calculateRefund with the 24-hour instant itself in the full-refund tier
calculateRefund_AtLeast(b, t) ==
  IF appointmentDateTime(b) - t >= FullRefundHours * MinutesPerHour
  THEN b.payment.amount
  ELSE IF MoreThanHours(b, t, PartialRefundHours)
       THEN (b.payment.amount * 5) \div 10
       ELSE 0

calculateRefund(b, t) ==
  IF MoreThanHours(b, t, FullRefundHours) THEN b.payment.amount
  ELSE IF MoreThanHours(b, t, PartialRefundHours)
       THEN (b.payment.amount * 5) \div 10
       ELSE 0

\* pre('save'): TRUE when the hook lets the save through
preSave(b, t) == ~(b.appointmentDate < t)

(***************************************************************************)
(* Provider model (src/server/models/Provider.js)                          *)
(***************************************************************************)
WeekdayStyles == {"narrow", "short", "long"}

WeekdayNames ==
  [long   |-> <<"Monday", "Tuesday", "Wednesday", "Thursday", "Friday",
                "Saturday", "Sunday">>,
   short  |-> <<"Mon", "Tue", "Wed", "Thu", "Fri", "Sat", "Sun">>,
   narrow |-> <<"M", "T", "W", "T", "F", "S", "S">>]

\* date.toLocaleDateString('en-US', { weekday }): ECMA-402 reads the option
\* with GetOption(options, "weekday", <<"narrow", "short", "long">>), which
\* throws a RangeError for any other value.
toLocaleDateString(date, weekday) ==
  IF weekday \notin WeekdayStyles THEN "RangeError"
  ELSE WeekdayNames[weekday][((date \div MinutesPerDay) % 7) + 1]

\* new Date(`2000-01-01T${time}`) as minutes of that day; an ISO time needs
\* two-digit hours and minutes, anything else is an Invalid Date (Unset)
TimeOfDay(time) ==
  IF /\ Len(time) = 5
     /\ time[3] = ":"
     /\ \A i \in {1, 2, 4, 5} : IsDigit(time[i])
     /\ parseInt(SubSeq(time, 1, 2)) < HoursPerDay
     /\ parseInt(SubSeq(time, 4, 5)) < MinutesPerHour
  THEN parseInt(SubSeq(time, 1, 2)) * MinutesPerHour + parseInt(SubSeq(time, 4, 5))
  ELSE Unset

\* isAvailableAt(date, time): "true", "false", or the exception it throws
isAvailableAt(provider, date, time) ==
  LET dayName == toLocaleDateString(date, "lowercase")
      days == provider.workingDays
      found == {i \in 1..Len(days) : days[i].day = dayName}
      isBlocked == \E i \in 1..Len(provider.blockedDates) :
                     StartOfDay(provider.blockedDates[i].date) = StartOfDay(date)
      requestedTime == TimeOfDay(time)
  IN  IF dayName = "RangeError" THEN "RangeError"
      ELSE IF found = {} THEN "false"
      ELSE LET workingDay == days[CHOOSE i \in found : \A j \in found : i <= j]
               startTime == TimeOfDay(workingDay.startTime)
               endTime == TimeOfDay(workingDay.endTime)
           IN  IF ~workingDay.isAvailable \/ isBlocked THEN "false"
               ELSE IF /\ requestedTime # Unset /\ startTime # Unset
                       /\ endTime # Unset
                       /\ requestedTime >= startTime /\ requestedTime < endTime
                    THEN "true" ELSE "false"

slotDuration == 30

\* the while loop of getAvailableSlots, from currentTime on; the comparisons
\* of an Invalid Date are false
RECURSIVE generateSlots(_, _)
generateSlots(currentTime, endTime) ==
  IF currentTime = Unset \/ endTime = Unset \/ ~(currentTime < endTime) THEN <<>>
  ELSE LET slotEnd == currentTime + slotDuration
       IN  (IF slotEnd <= endTime
            THEN <<[startTime |-> toTimeString(currentTime),
                    endTime |-> toTimeString(slotEnd),
                    isAvailable |-> TRUE]>>
            ELSE <<>>)
           \o generateSlots(slotEnd, endTime)

\* getAvailableSlots(date): the exception it throws ("none" when it returns)
\* and the slots it returns
getAvailableSlots(provider, date) ==
  LET dayName == toLocaleDateString(date, "lowercase")
      days == provider.workingDays
      found == {i \in 1..Len(days) : days[i].day = dayName}
      isBlocked == \E i \in 1..Len(provider.blockedDates) :
                     StartOfDay(provider.blockedDates[i].date) = StartOfDay(date)
  IN  IF dayName = "RangeError" THEN [throws |-> "RangeError", slots |-> <<>>]
      ELSE IF found = {} THEN [throws |-> "none", slots |-> <<>>]
      ELSE LET workingDay == days[CHOOSE i \in found : \A j \in found : i <= j]
           IN  IF ~workingDay.isAvailable \/ isBlocked
               THEN [throws |-> "none", slots |-> <<>>]
               ELSE [throws |-> "none",
                     slots |-> generateSlots(TimeOfDay(workingDay.startTime),
                                             TimeOfDay(workingDay.endTime))]

(***************************************************************************)
(* The state when the server starts                                        *)
(***************************************************************************)
SeedCustomers == {"alice"}
SeedDates == {MinutesPerDay}                 \* Tuesday 00:00
SeedTimes == {T(1,2,0,0)}
SeedShapes == {"fresh", "lapsed"}

ActiveServices(p) ==
  {Providers[p].services[i] : i \in {j \in 1..Len(Providers[p].services) :
                                       Providers[p].services[j].isActive}}

\* the end time the create handler stores: start time plus the duration
EndTimeOf(startTime, duration) ==
  IF TimeOfDay(startTime) = Unset THEN <<"I", "n", "v", "a", "l">>
  ELSE toTimeString(TimeOfDay(startTime) + duration)

\* the document new Booking({...}) builds, with the schema's defaults
NewBooking(customer, p, service, date, startTime) ==
  [customer |-> customer,
   provider |-> p,
   service |-> [name |-> service.name, duration |-> service.duration,
                price |-> service.price],
   appointmentDate |-> date,
   startTime |-> startTime,
   endTime |-> EndTimeOf(startTime, service.duration),
   status |-> "pending",
   providerNotes |-> "none",
   payment |-> [stripePaymentIntentId |-> Unset, amount |-> service.price,
                status |-> "pending", paidAt |-> Unset],
   cancellation |-> NoCancellation,
   rescheduleHistory |-> <<>>]

\* "fresh": as the create handler persists it; "lapsed": a fresh booking
\* whose payment intent (id = the booking's id) failed, as handlePaymentFailed
\* leaves it
SeedBooking(id, customer, p, service, date, startTime, shape) ==
  LET b == NewBooking(customer, p, service, date, startTime)
  IN  IF shape = "fresh" THEN b
      ELSE [b EXCEPT !.status = "cancelled",
                     !.payment.stripePaymentIntentId = id,
                     !.payment.status = "failed"]

SeedBookings(id) ==
  {SeedBooking(id, c, p, s, d, t, sh) :
     c \in SeedCustomers, p \in ProviderIds, s \in UNION {ActiveServices(q) : q \in ProviderIds},
     d \in SeedDates, t \in SeedTimes, sh \in SeedShapes}

ActiveStatuses == {"confirmed", "pending"}

\* Booking.findOne({ provider, appointmentDate, startTime,
\*                   status: { $in: ['confirmed', 'pending'] }, _id: { $ne } })
findConflict(bs, p, date, startTime, exceptId) ==
  {i \in DOMAIN bs : /\ i # exceptId
                     /\ bs[i].provider = p
                     /\ bs[i].appointmentDate = date
                     /\ bs[i].startTime = startTime
                     /\ bs[i].status \in ActiveStatuses}

NoQuery == [provider |-> "none"]

\* the collection holds a seed document for each id of ids, no two active ones
\* on one slot of a provider, and the gateway holds the intent of each
\* document that has one
Seeded(ids) ==
  /\ bookings \in [ids -> UNION {SeedBookings(i) : i \in ids}]
  /\ \A i \in ids :
       /\ bookings[i] \in SeedBookings(i)
       /\ bookings[i].service \in
            {[name |-> s.name, duration |-> s.duration, price |-> s.price] :
               s \in ActiveServices(bookings[i].provider)}
       /\ bookings[i].status \in ActiveStatuses =>
            findConflict(bookings, bookings[i].provider,
                         bookings[i].appointmentDate, bookings[i].startTime, i) = {}
  /\ intents = [i \in ids |->
                  IF bookings[i].payment.stripePaymentIntentId = Unset
                  THEN "none" ELSE "requires_payment_method"]

SeedIds == {{}, {1}}

Init ==
  /\ now = 0
  /\ query = NoQuery
  /\ refunds = <<>>
  /\ users = [u \in Users |-> Role(u)]
  /\ providerUser = [p \in ProviderIds |-> Providers[p].user]
  /\ \E ids \in SeedIds : Seeded(ids)
  /\ events = {}

(***************************************************************************)
(* Middleware (src/server/middleware/auth.js)                              *)
(***************************************************************************)
RoutesWithRequireProvider == {"status"}

\* req.provider as the route's handler sees it: set by requireProvider on
\* the routes that name it, undefined on every other route
ReqProvider(route, u) ==
  IF route \in RoutesWithRequireProvider THEN ProviderOfUser(u) ELSE "undefined"

\* requireProvider: "next" or the response it sends
requireProvider(u) ==
  IF Role(u) # "provider" THEN "Forbidden"
  ELSE IF ProviderOfUser(u) = "none" THEN "NotFound"
  ELSE "next"

\* isCustomer / isProvider of the cancel and reschedule handlers;
\* req.provider?._id.toString() is undefined when req.provider is
isCustomer(b, u) == b.customer = u

isProvider(route, b, u) ==
  Role(u) = "provider" /\ b.provider = ReqProvider(route, u)

(***************************************************************************)
(* The clock                                                               *)
(***************************************************************************)
Tick ==
  /\ now < MaxTicks * TickMinutes
  /\ now' = now + TickMinutes
  /\ UNCHANGED <<users, providerUser, query, refunds, bookings, intents, events>>

(***************************************************************************)
(* PUT /api/bookings/:id/cancel                                            *)
(***************************************************************************)
\* CancelledBooking with the refund left uncomputed
CancelledBooking_NoRefund(b, u, t) ==
  LET c == [b EXCEPT !.status = "cancelled"]
  IN  [c EXCEPT !.cancellation =
         [cancelledBy |-> IF isCustomer(b, u) THEN "customer" ELSE "provider",
          cancelledAt |-> t,
          refundAmount |-> Unset,
          refundStatus |-> "pending"]]

CancelledBooking(b, u, t) ==
  LET c == [b EXCEPT !.status = "cancelled"]
  IN  [c EXCEPT !.cancellation =
         [cancelledBy |-> IF isCustomer(b, u) THEN "customer" ELSE "provider",
          cancelledAt |-> t,
          refundAmount |-> calculateRefund(c, t),
          refundStatus |-> "pending"]]

\* CancelResult with the actor check left out
CancelResult_NoActorCheck(bs, id, u, t) ==
  IF id \notin DOMAIN bs THEN "NotFound"
  ELSE IF ~canBeCancelled(bs[id], t) THEN "PolicyViolation"
  ELSE IF ~preSave(CancelledBooking(bs[id], u, t), t) THEN "ServerError"
  ELSE "ok"

CancelResult(bs, id, u, t) ==
  IF id \notin DOMAIN bs THEN "NotFound"
  ELSE IF ~isCustomer(bs[id], u) /\ ~isProvider("cancel", bs[id], u) THEN "Forbidden"
  ELSE IF ~canBeCancelled(bs[id], t) THEN "PolicyViolation"
  ELSE IF ~preSave(CancelledBooking(bs[id], u, t), t) THEN "ServerError"
  ELSE "ok"

Cancel(u, id) ==
  LET r == CancelResult(bookings, id, u, now)
  IN  /\ bookings' = IF r = "ok"
                     THEN [bookings EXCEPT ![id] = CancelledBooking(@, u, now)]
                     ELSE bookings
      /\ UNCHANGED <<users, providerUser, query, refunds, now, intents, events>>

(***************************************************************************)
(* PUT /api/bookings/:id/status                                            *)
(***************************************************************************)
\* StatusValues of a validator that admits every status of the schema
StatusValues_WithPending ==
  {"pending", "confirmed", "in-progress", "completed", "cancelled", "no-show"}

\* body('status').isIn([...])
StatusValues == {"confirmed", "in-progress", "completed", "cancelled", "no-show"}

StatusUpdated(b, status, notes) ==
  [b EXCEPT !.status = status,
            !.providerNotes = IF notes # "none" THEN notes ELSE @]

\* TRUE when the handler reaches booking.save() and the save goes through
UpdateStatusSaves(bs, id, u, status, notes, t) ==
  /\ requireProvider(u) = "next"
  /\ status \in StatusValues
  /\ id \in DOMAIN bs
  /\ bs[id].provider = ReqProvider("status", u)
  /\ preSave(StatusUpdated(bs[id], status, notes), t)

\* the response; mailOk: whether sendBookingConfirmation, awaited after the
\* save, resolves
UpdateStatusResult(bs, id, u, status, notes, t, mailOk) ==
  IF requireProvider(u) # "next" THEN requireProvider(u)
  ELSE IF status \notin StatusValues THEN "ValidationError"
  ELSE IF id \notin DOMAIN bs THEN "NotFound"
  ELSE IF bs[id].provider # ReqProvider("status", u) THEN "Forbidden"
  ELSE IF ~preSave(StatusUpdated(bs[id], status, notes), t) THEN "ServerError"
  ELSE IF status = "confirmed" /\ bs[id].status = "pending" /\ ~mailOk
       THEN "ServerError"
  ELSE "ok"

UpdateStatus(u, id, status, notes, mailOk) ==
  /\ bookings' = IF UpdateStatusSaves(bookings, id, u, status, notes, now)
                 THEN [bookings EXCEPT ![id] = StatusUpdated(@, status, notes)]
                 ELSE bookings
  /\ UNCHANGED <<users, providerUser, query, refunds, now, intents, events>>

(***************************************************************************)
(* The payment gateway (Stripe) and routes/payments.js                     *)
(*                                                                         *)
(* A booking's payment intent is identified by the booking's id.  An       *)
(* intent that was replaced by a newer one matches no booking any more, so *)
(* only the newest intent of a booking is kept.                            *)
(***************************************************************************)
EventTypes == {"payment_intent.succeeded", "payment_intent.payment_failed"}

\* Booking.findOne({ 'payment.stripePaymentIntentId': pi })
findByIntent(bs, pi) ==
  {i \in DOMAIN bs : bs[i].payment.stripePaymentIntentId = pi}

\* POST /api/payments/create-payment-intent
CreatePaymentIntentResult(bs, id, u, t) ==
  IF id \notin DOMAIN bs THEN "NotFound"
  ELSE IF bs[id].customer # u THEN "Forbidden"
  ELSE IF bs[id].payment.status # "pending" THEN "PaymentAlreadyProcessed"
  ELSE IF ~preSave(bs[id], t) THEN "ServerError"
  ELSE "ok"

CreatePaymentIntent(u, id) ==
  LET r == CreatePaymentIntentResult(bookings, id, u, now)
  IN  /\ bookings' = IF r = "ok"
                     THEN [bookings EXCEPT ![id].payment.stripePaymentIntentId = id]
                     ELSE bookings
      /\ intents' = IF r = "ok"
                    THEN [intents EXCEPT ![id] = "requires_payment_method"]
                    ELSE intents
      /\ events' = IF r = "ok" THEN {e \in events : e[1] # id} ELSE events
      /\ UNCHANGED <<users, providerUser, query, refunds, now>>

\* the customer's payment attempt is declined: the intent stays open
GatewayDeclines(id) ==
  /\ id \in DOMAIN intents
  /\ intents[id] = "requires_payment_method"
  /\ events' = events \cup {<<id, "payment_intent.payment_failed">>}
  /\ UNCHANGED <<users, providerUser, query, refunds, now, bookings, intents>>

\* the customer's payment attempt goes through
GatewayCharges(id) ==
  /\ id \in DOMAIN intents
  /\ intents[id] = "requires_payment_method"
  /\ intents' = [intents EXCEPT ![id] = "succeeded"]
  /\ events' = events \cup {<<id, "payment_intent.succeeded">>}
  /\ UNCHANGED <<users, providerUser, query, refunds, now, bookings>>

PaidBooking(b, t) ==
  [b EXCEPT !.payment.status = "succeeded", !.payment.paidAt = t,
            !.status = "confirmed"]

\* POST /api/payments/confirm-payment, for the intent with id pi
ConfirmPaymentSaves(bs, pis, pi, u, t) ==
  /\ pi \in DOMAIN pis
  /\ pis[pi] = "succeeded"
  /\ findByIntent(bs, pi) # {}
  /\ LET id == CHOOSE i \in findByIntent(bs, pi) : TRUE
     IN  bs[id].customer = u /\ preSave(PaidBooking(bs[id], t), t)

ConfirmPaymentResult(bs, pis, pi, u, t, mailOk) ==
  IF pi \notin DOMAIN pis \/ pis[pi] = "none" THEN "ServerError"
  ELSE IF pis[pi] # "succeeded" THEN "PaymentNotCompleted"
  ELSE IF findByIntent(bs, pi) = {} THEN "NotFound"
  ELSE LET id == CHOOSE i \in findByIntent(bs, pi) : TRUE
       IN  IF bs[id].customer # u THEN "Forbidden"
           ELSE IF ~preSave(PaidBooking(bs[id], t), t) THEN "ServerError"
           ELSE IF ~mailOk THEN "ServerError"
           ELSE "ok"

\* PaymentConfirmed of a handler that sends the e-mail before it saves
PaymentConfirmed_MailFirst(bs, pis, pi, u, t, mailOk) ==
  IF ConfirmPaymentSaves(bs, pis, pi, u, t) /\ mailOk
  THEN [bs EXCEPT ![CHOOSE i \in findByIntent(bs, pi) : TRUE] = PaidBooking(@, t)]
  ELSE bs

\* the collection after the request: the save comes before the e-mail, whose
\* outcome it does not wait for
PaymentConfirmed(bs, pis, pi, u, t, mailOk) ==
  IF ConfirmPaymentSaves(bs, pis, pi, u, t)
  THEN [bs EXCEPT ![CHOOSE i \in findByIntent(bs, pi) : TRUE] = PaidBooking(@, t)]
  ELSE bs

ConfirmPayment(u, pi, mailOk) ==
  /\ bookings' = PaymentConfirmed(bookings, intents, pi, u, now, mailOk)
  /\ UNCHANGED <<users, providerUser, query, refunds, now, intents, events>>

\* handlePaymentSucceeded / handlePaymentFailed: the booking after the event
handlePaymentSucceeded(bs, pi, t) ==
  IF findByIntent(bs, pi) = {} THEN bs
  ELSE LET id == CHOOSE i \in findByIntent(bs, pi) : TRUE
       IN  IF /\ bs[id].payment.status = "pending"
              /\ preSave(PaidBooking(bs[id], t), t)
           THEN [bs EXCEPT ![id] = PaidBooking(@, t)]
           ELSE bs

UnpaidBooking(b) ==
  [b EXCEPT !.payment.status = "failed", !.status = "cancelled"]

handlePaymentFailed(bs, pi, t) ==
  IF findByIntent(bs, pi) = {} THEN bs
  ELSE LET id == CHOOSE i \in findByIntent(bs, pi) : TRUE
       IN  IF /\ bs[id].payment.status = "pending"
              /\ preSave(UnpaidBooking(bs[id]), t)
           THEN [bs EXCEPT ![id] = UnpaidBooking(@)]
           ELSE bs

\* POST /api/payments/webhook
Webhook(e) ==
  /\ e \in events
  /\ events' = events \ {e}
  /\ bookings' = IF e[2] = "payment_intent.succeeded"
                 THEN handlePaymentSucceeded(bookings, e[1], now)
                 ELSE handlePaymentFailed(bookings, e[1], now)
  /\ UNCHANGED <<users, providerUser, query, refunds, now, intents>>

(***************************************************************************)
(* POST /api/payments/refund                                               *)
(***************************************************************************)
\* the answers stripe.refunds.create can give when it is called: it resolves
\* (TRUE) or throws
GatewayOutcomes(called) == IF called THEN BOOLEAN ELSE {TRUE}

\* the booking the handler saves after the gateway took the refund
Refunded(b, t) ==
  [b EXCEPT !.cancellation.refundAmount = calculateRefund(b, t),
            !.cancellation.refundStatus = "processed"]

\* TRUE when the handler reaches stripe.refunds.create
RefundSent(bs, id, u, t) ==
  /\ id \in DOMAIN bs
  /\ isProvider("refund", bs[id], u) \/ Role(u) = "admin"
  /\ bs[id].payment.status = "succeeded"
  /\ bs[id].payment.stripePaymentIntentId # Unset
  /\ calculateRefund(bs[id], t) > 0

RefundResult(bs, id, u, t, gatewayOk) ==
  IF id \notin DOMAIN bs THEN "NotFound"
  ELSE IF ~isProvider("refund", bs[id], u) /\ Role(u) # "admin" THEN "Forbidden"
  ELSE IF bs[id].payment.status # "succeeded" THEN "NoPayment"
  ELSE IF bs[id].payment.stripePaymentIntentId = Unset THEN "NoPaymentIntent"
  ELSE IF calculateRefund(bs[id], t) <= 0 THEN "NoRefundAvailable"
  ELSE IF ~gatewayOk THEN "ServerError"
  ELSE IF ~preSave(Refunded(bs[id], t), t) THEN "ServerError"
  ELSE "ok"

Refund(u, id, gatewayOk) ==
  LET sent == RefundSent(bookings, id, u, now)
  IN  /\ sent => Len(refunds) < MaxRefunds
      /\ refunds' = IF sent
                    THEN Append(refunds,
                                [booking |-> id,
                                 amount |-> calculateRefund(bookings[id], now)])
                    ELSE refunds
      /\ bookings' = IF RefundResult(bookings, id, u, now, gatewayOk) = "ok"
                     THEN [bookings EXCEPT ![id] = Refunded(@, now)]
                     ELSE bookings
      /\ UNCHANGED <<users, providerUser, query, now, intents, events>>

(***************************************************************************)
(* POST /api/bookings                                                      *)
(***************************************************************************)
\* provider.services.find(s => s.name === serviceName && s.isActive)
\* findService without the isActive test
findService_IgnoresActive(p, serviceName) ==
  LET ss == Providers[p].services
      hits == {i \in 1..Len(ss) : ss[i].name = serviceName}
  IN  IF hits = {} THEN <<>>
      ELSE <<ss[CHOOSE i \in hits : \A j \in hits : i <= j]>>

findService(p, serviceName) ==
  LET ss == Providers[p].services
      hits == {i \in 1..Len(ss) : ss[i].name = serviceName /\ ss[i].isActive}
  IN  IF hits = {} THEN <<>>
      ELSE <<ss[CHOOSE i \in hits : \A j \in hits : i <= j]>>

\* CreateResult of a handler that saves without asking isAvailableAt and
\* without the pre-save hook
CreateResult_SavesUnchecked(bs, u, p, serviceName, date, startTime, t) ==
  IF p \notin ProviderIds THEN "NotFound"
  ELSE IF findService(p, serviceName) = <<>> THEN "ServiceNotFound"
  ELSE IF findConflict(bs, p, date, startTime, 0) # {} THEN "SlotTaken"
  ELSE "ok"

CreateResult(bs, u, p, serviceName, date, startTime, t) ==
  IF p \notin ProviderIds THEN "NotFound"
  ELSE IF findService(p, serviceName) = <<>> THEN "ServiceNotFound"
  ELSE IF isAvailableAt(Providers[p], date, startTime) = "RangeError"
       THEN "ServerError"
  ELSE IF isAvailableAt(Providers[p], date, startTime) = "false"
       THEN "ProviderUnavailable"
  ELSE IF findConflict(bs, p, date, startTime, 0) # {} THEN "SlotTaken"
  ELSE IF ~preSave(NewBooking(u, p, findService(p, serviceName)[1], date,
                              startTime), t)
       THEN "ServerError"
  ELSE "ok"

\* the collection after the request: with the new document when it succeeds
Created(bs, u, p, serviceName, date, startTime, t) ==
  LET id == Cardinality(DOMAIN bs) + 1
  IN  IF CreateResult(bs, u, p, serviceName, date, startTime, t) = "ok"
      THEN [i \in 1..id |->
              IF i < id THEN bs[i]
              ELSE NewBooking(u, p, findService(p, serviceName)[1], date,
                              startTime)]
      ELSE bs

Create(u, p, serviceName, date, startTime) ==
  LET r == CreateResult(bookings, u, p, serviceName, date, startTime, now)
      id == Cardinality(DOMAIN bookings) + 1
  IN  /\ r = "ok" => id <= MaxBookings
      /\ bookings' = Created(bookings, u, p, serviceName, date, startTime, now)
      /\ intents' = IF r = "ok"
                    THEN [i \in 1..id |-> IF i < id THEN intents[i] ELSE "none"]
                    ELSE intents
      /\ UNCHANGED <<users, providerUser, query, refunds, now, events>>

(***************************************************************************)
(* PUT /api/bookings/:id/reschedule                                        *)
(***************************************************************************)
RescheduledBooking(b, u, newDate, newStartTime, t) ==
  [b EXCEPT
     !.rescheduleHistory = Append(@,
        [originalDate |-> b.appointmentDate,
         originalStartTime |-> b.startTime,
         originalEndTime |-> b.endTime,
         newDate |-> newDate,
         newStartTime |-> newStartTime,
         newEndTime |-> b.endTime,
         rescheduledAt |-> t,
         rescheduledBy |-> IF isCustomer(b, u) THEN "customer" ELSE "provider"]),
     !.appointmentDate = newDate,
     !.startTime = newStartTime]

RescheduleResult(bs, id, u, newDate, newStartTime, t) ==
  IF id \notin DOMAIN bs THEN "NotFound"
  ELSE IF ~isCustomer(bs[id], u) /\ ~isProvider("reschedule", bs[id], u)
       THEN "Forbidden"
  ELSE IF ~canBeRescheduled(bs[id], t) THEN "PolicyViolation"
  ELSE IF isAvailableAt(Providers[bs[id].provider], newDate, newStartTime)
            = "RangeError"
       THEN "ServerError"
  ELSE IF isAvailableAt(Providers[bs[id].provider], newDate, newStartTime)
            = "false"
       THEN "ProviderUnavailable"
  ELSE IF findConflict(bs, bs[id].provider, newDate, newStartTime, id) # {}
       THEN "SlotTaken"
  ELSE IF ~preSave(RescheduledBooking(bs[id], u, newDate, newStartTime, t), t)
       THEN "ServerError"
  ELSE "ok"

Reschedule(u, id, newDate, newStartTime) ==
  LET r == RescheduleResult(bookings, id, u, newDate, newStartTime, now)
  IN  /\ r = "ok" => Len(bookings[id].rescheduleHistory) < MaxReschedules
      /\ bookings' =
           IF r = "ok"
           THEN [bookings EXCEPT
                   ![id] = RescheduledBooking(@, u, newDate, newStartTime, now)]
           ELSE bookings
      /\ UNCHANGED <<users, providerUser, query, refunds, now, intents, events>>

(***************************************************************************)
(* The server                                                              *)
(***************************************************************************)
RequestProviders == ProviderIds \cup {"P0"}
RequestServices == {"cut", "Cut", "wax", "consult"}
RequestDates == SeedDates
RequestTimes == SeedTimes \cup {T(0,8,0,0), T(1,6,0,0)}
RequestIds == 1..MaxBookings
Notes == {"none", "note"}

\* the outcomes of sending the confirmation e-mail, where one is sent
MailOutcomes(sent) == IF sent THEN BOOLEAN ELSE {TRUE}

\* one request served, whichever handler it reaches
Request ==
  \/ \E u \in SeedCustomers, p \in RequestProviders, s \in RequestServices,
        d \in RequestDates, t \in RequestTimes : Create(u, p, s, d, t)
  \/ \E u \in Users, id \in RequestIds : CreatePaymentIntent(u, id)
  \/ \E id \in RequestIds : GatewayDeclines(id)
  \/ \E id \in RequestIds : GatewayCharges(id)
  \/ \E u \in Users, id \in RequestIds :
       \E mailOk \in MailOutcomes(ConfirmPaymentSaves(bookings, intents, id, u, now)) :
          ConfirmPayment(u, id, mailOk)
  \/ \E e \in events : Webhook(e)
  \/ \E u \in Users, id \in RequestIds, st \in BookingStatuses, n \in Notes :
       \E mailOk \in MailOutcomes(/\ UpdateStatusSaves(bookings, id, u, st, n, now)
                                  /\ st = "confirmed"
                                  /\ bookings[id].status = "pending") :
          UpdateStatus(u, id, st, n, mailOk)
  \/ \E u \in Users, id \in RequestIds : Cancel(u, id)
  \/ \E u \in Users, id \in RequestIds, d \in RequestDates, t \in RequestTimes :
        Reschedule(u, id, d, t)

Next == Tick \/ Request

Spec == Init /\ [][Next]_vars

(***************************************************************************)
(* The server with the refund route.  The route writes                     *)
(* cancellation.refundAmount and cancellation.refundStatus and the         *)
(* gateway's refunds, and nothing else.                                    *)
(***************************************************************************)
RefundRequest ==
  \E u \in Users, id \in RequestIds :
    \E gatewayOk \in GatewayOutcomes(RefundSent(bookings, id, u, now)) :
       Refund(u, id, gatewayOk)

RefundNext == Tick \/ Request \/ RefundRequest

SpecRefund == Init /\ [][RefundNext]_vars

(***************************************************************************)
(* Two stored bookings at one instant: the requests the server can be sent *)
(* while the collection holds two documents                                *)
(***************************************************************************)
PairIds == {1, 2}

PairInit ==
  /\ now = 0
  /\ query = NoQuery
  /\ refunds = <<>>
  /\ users = [u \in Users |-> Role(u)]
  /\ providerUser = [p \in ProviderIds |-> Providers[p].user]
  /\ Seeded(PairIds)
  /\ events = {}

\* as Request, with no provider notes and every e-mail delivered
PairNext ==
  \/ \E u \in SeedCustomers, p \in RequestProviders, s \in RequestServices,
        d \in RequestDates, t \in RequestTimes : Create(u, p, s, d, t)
  \/ \E u \in Users, id \in PairIds : CreatePaymentIntent(u, id)
  \/ \E id \in PairIds : GatewayDeclines(id)
  \/ \E id \in PairIds : GatewayCharges(id)
  \/ \E u \in Users, id \in PairIds : ConfirmPayment(u, id, TRUE)
  \/ \E e \in events : Webhook(e)
  \/ \E u \in Users, id \in PairIds, st \in StatusValues :
        UpdateStatus(u, id, st, "none", TRUE)
  \/ \E u \in Users, id \in PairIds : Cancel(u, id)
  \/ \E u \in Users, id \in PairIds, d \in RequestDates, t \in RequestTimes :
        Reschedule(u, id, d, t)

SpecPair == PairInit /\ [][PairNext]_vars

(***************************************************************************)
(* The booking policies as functions of the document and the clock: one    *)
(* stored booking of any status, met by a request at an instant around the *)
(* policies' thresholds                                                    *)
(***************************************************************************)
\* minutes from the request to the start of the appointment
PolicyLeads ==
  {-30, 0, 60, 119, 120, 121, 180, 239, 240, 241, 600, 1439, 1440, 1441, 1500}

\* start times, in minutes of the day (09:30, 12:00)
PolicyClocks == {570, 720}

\* appointmentDate as stored from a date-only and from a date-time string
PolicyDates == {MinutesPerDay, MinutesPerDay + 90}

PolicyBooking(p, service, date, clock, status) ==
  [NewBooking("alice", p, service, date, toTimeString(clock))
     EXCEPT !.status = status]

PolicyInit ==
  /\ \E p \in ProviderIds, date \in PolicyDates, clock \in PolicyClocks,
        status \in BookingStatuses, lead \in PolicyLeads :
        \E k \in 1..Len(Providers[p].services) :
           /\ bookings = <<PolicyBooking(p, Providers[p].services[k], date,
                                         clock, status)>>
           /\ now = StartOfDay(date) + clock - lead
  /\ intents = <<"none">>
  /\ events = {}
  /\ query = NoQuery
  /\ refunds = <<>>
  /\ users = [u \in Users |-> Role(u)]
  /\ providerUser = [p \in ProviderIds |-> Providers[p].user]

PolicyNext ==
  \/ \E u \in Users, id \in DOMAIN bookings : Cancel(u, id)
  \/ \E u \in Users, id \in DOMAIN bookings, d \in RequestDates,
        t \in RequestTimes : Reschedule(u, id, d, t)

SpecPolicy == PolicyInit /\ [][PolicyNext]_vars

(***************************************************************************)
(* Availability as a function of the provider document, the date and the   *)
(* time: one question about one provider, asked of isAvailableAt and of    *)
(* GET /api/providers/:id/availability for that date                       *)
(***************************************************************************)
QueryDays == {"tuesday", "wednesday"}
QueryOpenings == {T(0,8,0,0), T(0,9,0,0)}
QueryClosings == {T(0,8,0,0), T(1,2,4,5), T(1,3,0,0), T(1,6,0,0)}
QueryDates == {MinutesPerDay, 2 * MinutesPerDay}
QueryTimes == {T(0,7,3,0), T(0,8,0,0), T(1,2,0,0), T(1,2,4,5), T(1,3,0,0),
               T(1,6,0,0)}

\* availability.workingDays: no entry, or one entry
QueryWorkingDays ==
  {<<>>} \cup
  {<<[day |-> day, startTime |-> o, endTime |-> c, isAvailable |-> a]>> :
     day \in QueryDays, o \in QueryOpenings, c \in QueryClosings, a \in BOOLEAN}

\* availability.blockedDates: none, or the Tuesday (stored with a time of day)
QueryBlockedDates == {<<>>, <<[date |-> MinutesPerDay + 600]>>}

AvailabilityInit ==
  /\ now = 0
  /\ bookings = <<>>
  /\ intents = <<>>
  /\ events = {}
  /\ refunds = <<>>
  /\ users = [u \in Users |-> Role(u)]
  /\ providerUser = [p \in ProviderIds |-> Providers[p].user]
  /\ \E w \in QueryWorkingDays, bl \in QueryBlockedDates, d \in QueryDates,
        t \in QueryTimes :
        query = [provider |-> [workingDays |-> w, blockedDates |-> bl],
                 date |-> d, time |-> t]

\* GET /api/providers/:id/availability with startDate = endDate = date
AvailabilityResult(provider, date) ==
  IF getAvailableSlots(provider, date).throws # "none" THEN "ServerError"
  ELSE "ok"

GetAvailability ==
  /\ AvailabilityResult(query.provider, query.date) \in {"ok", "ServerError"}
  /\ UNCHANGED vars

\* the availability check of a create or reschedule request for the slot
CheckAvailability ==
  /\ isAvailableAt(query.provider, query.date, query.time)
       \in {"true", "false", "RangeError"}
  /\ UNCHANGED vars

AvailabilityNext == GetAvailability \/ CheckAvailability

SpecAvailability == AvailabilityInit /\ [][AvailabilityNext]_vars

(***************************************************************************)
(* Accounts: POST /api/auth/register, POST /api/providers/register and     *)
(* DELETE /api/admin/users/:id, with the bookings collection as it stands. *)
(* An id that was deleted is never issued again.                           *)
(***************************************************************************)
Deleted == "deleted"

\* people who have no account yet, and the ids their provider documents get
NewUsers == {"rita", "sam"}
NewProviderIds == <<"P3", "P4">>
AccountNames == Users \cup NewUsers
RegisterRoles == {"customer", "provider"}

\* User.findById(id), as the auth middleware and the admin routes use it
findUser(us, u) == u \in DOMAIN us /\ us[u] # Deleted

\* Provider.findOne({ user })
findProviderByUser(pu, u) == {p \in DOMAIN pu : pu[p] = u}

AccountsInit ==
  /\ now = 0
  /\ query = NoQuery
  /\ refunds = <<>>
  /\ \E ids \in SeedIds : Seeded(ids)
  /\ events = {}
  /\ users = [u \in Users \ NewUsers |-> Role(u)]
  /\ providerUser = [p \in ProviderIds |-> Providers[p].user]

\* POST /api/auth/register: the role is taken from the request
RegisterUserResult(us, u) ==
  IF findUser(us, u) THEN "AlreadyRegistered" ELSE "ok"

RegisterUser(u, role) ==
  /\ u \in DOMAIN users => users[u] # Deleted
  /\ users' = IF RegisterUserResult(users, u) = "ok"
              THEN [v \in DOMAIN users \cup {u} |->
                      IF v = u THEN role ELSE users[v]]
              ELSE users
  /\ UNCHANGED <<providerUser, query, refunds, now, bookings, intents, events>>

\* what the database does with the two writes of the provider registration
DbOutcomes == {"ok", "saveFails", "updateFails"}

\* POST /api/providers/register
RegisterProviderResult(us, pu, u, db) ==
  IF ~findUser(us, u) THEN "Unauthorized"
  ELSE IF us[u] # "customer" THEN "Forbidden"
  ELSE IF findProviderByUser(pu, u) # {} THEN "AlreadyProvider"
  ELSE IF db # "ok" THEN "ServerError"
  ELSE "ok"

\* TRUE when provider.save() is reached and goes through
ProviderSaved(us, pu, u, db) ==
  /\ findUser(us, u)
  /\ us[u] = "customer"
  /\ findProviderByUser(pu, u) = {}
  /\ db # "saveFails"

RegisterProvider(u, db) ==
  LET saved == ProviderSaved(users, providerUser, u, db)
      free == {i \in 1..Len(NewProviderIds) :
                 NewProviderIds[i] \notin DOMAIN providerUser}
      id == NewProviderIds[CHOOSE i \in free : \A j \in free : i <= j]
  IN  /\ saved => free # {}
      /\ providerUser' = IF saved
                         THEN [p \in DOMAIN providerUser \cup {id} |->
                                 IF p = id THEN u ELSE providerUser[p]]
                         ELSE providerUser
      /\ users' = IF saved /\ db = "ok"
                  THEN [users EXCEPT ![u] = "provider"]
                  ELSE users
      /\ UNCHANGED <<query, refunds, now, bookings, intents, events>>

\* Booking.find({ $or: [{ customer: id }, { provider: id }] }) with a user id
findBookingsOfUser(bs, u) ==
  {i \in DOMAIN bs : bs[i].customer = u \/ bs[i].provider = u}

\* DELETE /api/admin/users/:id, sent by a
DeleteUserResult(us, bs, a, u) ==
  IF ~findUser(us, a) THEN "Unauthorized"
  ELSE IF us[a] # "admin" THEN "Forbidden"
  ELSE IF ~findUser(us, u) THEN "NotFound"
  ELSE IF findBookingsOfUser(bs, u) # {} THEN "HasBookings"
  ELSE "ok"

DeleteUser(a, u) ==
  /\ users' = IF DeleteUserResult(users, bookings, a, u) = "ok"
              THEN [users EXCEPT ![u] = Deleted]
              ELSE users
  /\ UNCHANGED <<providerUser, query, refunds, now, bookings, intents, events>>

AccountsNext ==
  \/ \E u \in AccountNames, role \in RegisterRoles : RegisterUser(u, role)
  \/ \E u \in AccountNames, db \in DbOutcomes : RegisterProvider(u, db)
  \/ \E a, u \in AccountNames : DeleteUser(a, u)

SpecAccounts == AccountsInit /\ [][AccountsNext]_vars

(***************************************************************************)
(* What the specification says, in the terms of the model                  *)
(***************************************************************************)
\* the time of day an HH:MM string denotes, in minutes
ClockMinutes(s) == CHOOSE m \in 0..(MinutesPerDay - 1) : toTimeString(m) = s

\* minutes from the instant t to the start of b's appointment: the calendar
\* day of appointmentDate combined with startTime
LeadMinutes(b, t) ==
  (b.appointmentDate \div 1440) * 1440 + ClockMinutes(b.startTime) - t

\* the refund tier the policy gives at a lead time
TierRefund(b, t) ==
  IF LeadMinutes(b, t) > 1440 THEN b.payment.amount
  ELSE IF LeadMinutes(b, t) > 120 THEN b.payment.amount \div 2
       ELSE 0

DayNames == <<"monday", "tuesday", "wednesday", "thursday", "friday",
              "saturday", "sunday">>

\* the provider offers the slot: an available working day of that weekday
\* whose hours hold the start time, and the date is not blocked
Offered(p, date, time) ==
  /\ \E i \in 1..Len(Providers[p].workingDays) :
       LET wd == Providers[p].workingDays[i]
       IN  /\ wd.day = DayNames[((date \div 1440) % 7) + 1]
           /\ wd.isAvailable
           /\ ClockMinutes(wd.startTime) <= ClockMinutes(time)
           /\ ClockMinutes(time) < ClockMinutes(wd.endTime)
  /\ \A i \in 1..Len(Providers[p].blockedDates) :
       Providers[p].blockedDates[i].date \div 1440 # date \div 1440

\* an active (pending or confirmed) booking holds the slot
SlotHeld(p, date, time) ==
  \E i \in DOMAIN bookings :
    /\ bookings[i].provider = p
    /\ bookings[i].appointmentDate = date
    /\ bookings[i].startTime = time
    /\ bookings[i].status \in {"pending", "confirmed"}

\* C1: no two distinct active bookings of one provider share an
\* (appointmentDate, startTime) slot, whatever requests were served.
C1_NoDoubleBooking ==
  \A i, j \in DOMAIN bookings :
    (/\ i # j
     /\ bookings[i].provider = bookings[j].provider
     /\ bookings[i].appointmentDate = bookings[j].appointmentDate
     /\ bookings[i].startTime = bookings[j].startTime
     /\ bookings[i].status \in {"pending", "confirmed"})
    => bookings[j].status \notin {"pending", "confirmed"}

\* C2: two create requests of different customers for one free, offered slot,
\* both evaluated against the same contents of the collection (each reads
\* before the other writes), both pass the conflict check and both store a
\* pending booking.
C2_BothCreatesPass ==
  \A u1, u2 \in Users, p \in ProviderIds, d \in RequestDates, t \in RequestTimes :
    \A k \in 1..Len(Providers[p].services) :
      LET sv == Providers[p].services[k]
      IN  (/\ u1 # u2 /\ sv.isActive /\ Offered(p, d, t) /\ d >= now
           /\ ~SlotHeld(p, d, t))
          => /\ CreateResult(bookings, u1, p, sv.name, d, t, now) = "ok"
             /\ CreateResult(bookings, u2, p, sv.name, d, t, now) = "ok"
             /\ NewBooking(u1, p, sv, d, t).status = "pending"
             /\ NewBooking(u2, p, sv, d, t).status = "pending"

\* C3: a create request for an offered slot is refused with SlotTaken while
\* an active booking holds the slot, and succeeds when none does (so again
\* once the holder is cancelled).
C3_SlotTakenWhileHeld ==
  \A u \in Users, p \in ProviderIds, d \in RequestDates, t \in RequestTimes :
    \A k \in 1..Len(Providers[p].services) :
      (Providers[p].services[k].isActive /\ Offered(p, d, t) /\ d >= now)
      => CreateResult(bookings, u, p, Providers[p].services[k].name, d, t, now)
           = IF SlotHeld(p, d, t) THEN "SlotTaken" ELSE "ok"

LifecycleEdges ==
  {<<"pending", "confirmed">>, <<"pending", "cancelled">>,
   <<"confirmed", "in-progress">>, <<"confirmed", "cancelled">>,
   <<"confirmed", "no-show">>, <<"in-progress", "completed">>}

\* C4: the status of a booking changes only along the edges of the
\* lifecycle; every other transition is rejected and leaves the status as
\* it was.
C4_LifecycleEdgesOnly ==
  [][\A id \in DOMAIN bookings :
       (id \in DOMAIN bookings' /\ bookings'[id].status # bookings[id].status)
       => <<bookings[id].status, bookings'[id].status>> \in LifecycleEdges]_vars

\* C5: a payment confirmation, by the confirm-payment route or by the
\* gateway's payment_intent.succeeded event, leaves a booking whose
\* payment.status is not pending unchanged, and sets payment.status =
\* succeeded, paidAt = now and status = confirmed on one it changes.
C5_ConfirmOnlyWhenPending ==
  [][\A id \in DOMAIN bookings :
       (\/ \E u \in Users, pi \in RequestIds, m \in BOOLEAN :
             ConfirmPayment(u, pi, m)
        \/ \E e \in events : e[2] = "payment_intent.succeeded" /\ Webhook(e))
       => /\ bookings[id].payment.status # "pending"
             => bookings'[id] = bookings[id]
          /\ bookings'[id] # bookings[id]
             => /\ bookings'[id].payment.status = "succeeded"
                /\ bookings'[id].payment.paidAt = now
                /\ bookings'[id].status = "confirmed"]_vars

C8_RefundTiers ==
  \A id \in DOMAIN bookings :
    LET b == bookings[id]
        r == calculateRefund(b, now)
    IN  /\ LeadMinutes(b, now) > 1440 => r = b.payment.amount
        /\ (LeadMinutes(b, now) > 120 /\ LeadMinutes(b, now) <= 1440)
             => 2 * r = b.payment.amount
        /\ LeadMinutes(b, now) <= 120 => r = 0

\* a paid-for booking exactly 24 hours out is refunded half
C8_Witness ==
  \E id \in DOMAIN bookings :
    /\ LeadMinutes(bookings[id], now) = 1440
    /\ bookings[id].payment.amount > 0
    /\ 2 * calculateRefund(bookings[id], now) = bookings[id].payment.amount

\* what a successful cancel by u records on booking id
CancelRecords(u, id) ==
  LET b == bookings[id]
      c == bookings'[id]
  IN  /\ c.status = "cancelled"
      /\ c.cancellation.cancelledBy =
           (IF u = b.customer THEN "customer" ELSE "provider")
      /\ c.cancellation.cancelledAt = now
      /\ c.cancellation.refundStatus = "pending"
      /\ c.cancellation.refundAmount = TierRefund(b, now)
      /\ \/ c.cancellation.refundAmount = b.payment.amount
         \/ 2 * c.cancellation.refundAmount = b.payment.amount

\* C9: a successful cancel sets status = cancelled, cancelledBy = the role
\* of the caller, cancelledAt = now, refundStatus = pending and refundAmount
\* = the refund of the booking at the time of the call, which is 50% or 100%
\* of payment.amount, and 0 only when payment.amount is 0.
C9_CancelRecords ==
  [][\A u \in Users, id \in DOMAIN bookings :
       (CancelResult(bookings, id, u, now) = "ok" /\ Cancel(u, id))
       => /\ CancelRecords(u, id)
          /\ bookings'[id].cancellation.refundAmount = 0
               => bookings[id].payment.amount = 0]_vars

\* C9 as stated: the same, with a recorded refundAmount that is never 0.
C9_RefundNeverZero ==
  [][\A u \in Users, id \in DOMAIN bookings :
       (CancelResult(bookings, id, u, now) = "ok" /\ Cancel(u, id))
       => /\ CancelRecords(u, id)
          /\ bookings'[id].cancellation.refundAmount # 0]_vars

\* a booking its customer has just cancelled, refunded half of a price paid
C9_Witness ==
  \E id \in DOMAIN bookings :
    /\ bookings[id].status = "cancelled"
    /\ bookings[id].cancellation.cancelledBy = "customer"
    /\ bookings[id].cancellation.cancelledAt = now
    /\ bookings[id].cancellation.refundStatus = "pending"
    /\ bookings[id].payment.amount > 0
    /\ 2 * bookings[id].cancellation.refundAmount = bookings[id].payment.amount

\* C10: the customer of a booking and the user who owns the provider profile
\* it is with are both authorised to cancel it and to reschedule it: when
\* the policy allows the operation, neither is answered Forbidden.
C10_ProviderAuthorised ==
  \A u \in Users, id \in DOMAIN bookings :
    (bookings[id].customer = u \/ Providers[bookings[id].provider].user = u)
    => /\ canBeCancelled(bookings[id], now)
            => CancelResult(bookings, id, u, now) # "Forbidden"
       /\ canBeRescheduled(bookings[id], now)
            => \A d \in RequestDates, t \in RequestTimes :
                 RescheduleResult(bookings, id, u, d, t, now) # "Forbidden"

\* u is neither the customer of b nor the owner of the provider b is with
Outsider(u, b) == u # b.customer /\ Providers[b.provider].user # u

\* C11: a caller who is neither the booking's customer nor its provider is
\* answered Forbidden by cancel and by reschedule, and the booking is left as
\* it was, whatever its status and timing.
C11_OutsiderForbidden ==
  [][\A u \in Users, id \in DOMAIN bookings :
       Outsider(u, bookings[id])
       => /\ CancelResult(bookings, id, u, now) = "Forbidden"
          /\ Cancel(u, id) => bookings' = bookings
          /\ \A d \in RequestDates, t \in RequestTimes :
               /\ RescheduleResult(bookings, id, u, d, t, now) = "Forbidden"
               /\ Reschedule(u, id, d, t) => bookings' = bookings]_vars

\* a confirmed booking inside both windows, and a caller foreign to it whose
\* cancel and reschedule are answered Forbidden
C11_Witness ==
  \E u \in Users, id \in DOMAIN bookings :
    /\ Outsider(u, bookings[id])
    /\ canBeRescheduled(bookings[id], now)
    /\ CancelResult(bookings, id, u, now) = "Forbidden"
    /\ \A d \in RequestDates, t \in RequestTimes :
         RescheduleResult(bookings, id, u, d, t, now) = "Forbidden"

\* an active booking other than id holds the slot
HeldByOther(id, p, date, time) ==
  \E i \in DOMAIN bookings \ {id} :
    /\ bookings[i].provider = p
    /\ bookings[i].appointmentDate = date
    /\ bookings[i].startTime = time
    /\ bookings[i].status \in {"pending", "confirmed"}

\* C12: a reschedule by the customer, inside the window, to an offered slot
\* nobody else holds succeeds; it appends exactly one history entry with the
\* values before the call as original and the requested ones as new, sets
\* appointmentDate and startTime to the requested values, and leaves status,
\* payment, service duration and endTime as they were.
C12_RescheduleRecords ==
  \A u \in Users, id \in DOMAIN bookings, d \in RequestDates, t \in RequestTimes :
    LET b == bookings[id]
        c == RescheduledBooking(b, u, d, t, now)
        h == c.rescheduleHistory
    IN  (/\ u = b.customer /\ canBeRescheduled(b, now) /\ d >= now
         /\ Offered(b.provider, d, t) /\ ~HeldByOther(id, b.provider, d, t))
        => /\ RescheduleResult(bookings, id, u, d, t, now) = "ok"
           /\ Len(h) = Len(b.rescheduleHistory) + 1
           /\ SubSeq(h, 1, Len(h) - 1) = b.rescheduleHistory
           /\ h[Len(h)].originalDate = b.appointmentDate
           /\ h[Len(h)].originalStartTime = b.startTime
           /\ h[Len(h)].newDate = d
           /\ h[Len(h)].newStartTime = t
           /\ c.appointmentDate = d /\ c.startTime = t
           /\ c.status = b.status /\ c.payment = b.payment
           /\ c.service.duration = b.service.duration
           /\ c.endTime = b.endTime

\* C13: a reschedule inside the window is answered ProviderUnavailable when
\* the new slot is not offered, SlotTaken when another booking of the
\* provider is active on it, and never SlotTaken on account of the booking
\* being moved; the booking is unchanged in the refused cases.
C13_RescheduleRechecks ==
  \A u \in Users, id \in DOMAIN bookings, d \in RequestDates, t \in RequestTimes :
    LET b == bookings[id]
        r == RescheduleResult(bookings, id, u, d, t, now)
    IN  (u = b.customer /\ canBeRescheduled(b, now) /\ d >= now)
        => /\ ~Offered(b.provider, d, t) => r = "ProviderUnavailable"
           /\ (Offered(b.provider, d, t) /\ HeldByOther(id, b.provider, d, t))
                => r = "SlotTaken"
           /\ (Offered(b.provider, d, t) /\ ~HeldByOther(id, b.provider, d, t))
                => r # "SlotTaken"

\* C14: a create request for an active service on an offered, free slot
\* succeeds, and the booking it stores has status = pending, payment.status
\* = pending, payment.amount = the service's price, the service's name,
\* duration and price as its snapshot, and endTime = startTime plus the
\* duration on the wall clock.
C14_CreatedBooking ==
  \A u \in Users, p \in ProviderIds, d \in RequestDates, t \in RequestTimes :
    \A k \in 1..Len(Providers[p].services) :
      LET sv == Providers[p].services[k]
          n == NewBooking(u, p, sv, d, t)
      IN  (sv.isActive /\ Offered(p, d, t) /\ ~SlotHeld(p, d, t) /\ d >= now)
          => /\ CreateResult(bookings, u, p, sv.name, d, t, now) = "ok"
             /\ n.status = "pending"
             /\ n.payment.status = "pending"
             /\ n.payment.amount = sv.price
             /\ n.service = [name |-> sv.name, duration |-> sv.duration,
                             price |-> sv.price]
             /\ ClockMinutes(n.endTime)
                  = (ClockMinutes(t) + sv.duration) % 1440

\* the provider has no active service of exactly this name
NoSuchService(p, serviceName) ==
  \A k \in 1..Len(Providers[p].services) :
    ~(/\ Providers[p].services[k].name = serviceName
      /\ Providers[p].services[k].isActive)

\* C15: create is answered ServiceNotFound and stores nothing whenever the
\* provider has no active service of exactly the requested name, whether or
\* not the slot is offered or free.
C15_ServiceNotFoundFirst ==
  \A u \in Users, p \in ProviderIds, sn \in RequestServices,
     d \in RequestDates, t \in RequestTimes :
    NoSuchService(p, sn)
    => /\ CreateResult(bookings, u, p, sn, d, t, now) = "ServiceNotFound"
       /\ Created(bookings, u, p, sn, d, t, now) = bookings

\* an inactive service requested on a slot that is already held, and on one
\* outside the working hours: both answered ServiceNotFound
C15_Witness ==
  \E id \in DOMAIN bookings, sn \in RequestServices, t \in RequestTimes :
    LET b == bookings[id]
    IN  /\ NoSuchService(b.provider, sn)
        /\ \E k \in 1..Len(Providers[b.provider].services) :
             Providers[b.provider].services[k].name = sn
        /\ SlotHeld(b.provider, b.appointmentDate, b.startTime)
        /\ CreateResult(bookings, "alice", b.provider, sn, b.appointmentDate,
                        b.startTime, now) = "ServiceNotFound"
        /\ ~Offered(b.provider, b.appointmentDate, t)
        /\ CreateResult(bookings, "alice", b.provider, sn, b.appointmentDate,
                        t, now) = "ServiceNotFound"

\* what the specification says of a provider document: the entries for the
\* weekday of a date, whether the date is blocked, whether a slot is offered
EntriesOn(provider, date) ==
  {i \in 1..Len(provider.workingDays) :
     provider.workingDays[i].day = DayNames[((date \div 1440) % 7) + 1]}

Blocked(provider, date) ==
  \E i \in 1..Len(provider.blockedDates) :
    provider.blockedDates[i].date \div 1440 = date \div 1440

OfferedBy(provider, date, time) ==
  /\ \E i \in EntriesOn(provider, date) :
       /\ provider.workingDays[i].isAvailable
       /\ ClockMinutes(provider.workingDays[i].startTime) <= ClockMinutes(time)
       /\ ClockMinutes(time) < ClockMinutes(provider.workingDays[i].endTime)
  /\ ~Blocked(provider, date)

\* C16: isAvailableAt is true exactly when the weekday of the date has an
\* available working-day entry, the date is not blocked and the time lies in
\* [startTime, endTime) of the entry; so it is false without an entry and at
\* the entry's endTime.
C16_IsAvailableAt ==
  isAvailableAt(query.provider, query.date, query.time)
    = IF OfferedBy(query.provider, query.date, query.time)
      THEN "true" ELSE "false"

\* the slots of the interval [from, to) cut every 30 minutes, as many as fit
SlotsExpected(slots, from, to) ==
  /\ Len(slots) = (to - from) \div 30
  /\ \A i \in 1..Len(slots) :
       /\ ClockMinutes(slots[i].startTime) = from + (i - 1) * 30
       /\ ClockMinutes(slots[i].endTime) = from + i * 30

\* C17: on an available, unblocked working day whose hours are a whole
\* number of 30-minute slots, computeSlots returns (endTime - startTime)/30
\* slots in increasing order, the first starting at startTime, the last
\* ending at endTime, each starting where the previous one ends.
C17_SlotsCoverInterval ==
  \A i \in EntriesOn(query.provider, query.date) :
    LET wd == query.provider.workingDays[i]
        from == ClockMinutes(wd.startTime)
        to == ClockMinutes(wd.endTime)
        got == getAvailableSlots(query.provider, query.date)
    IN  (/\ wd.isAvailable /\ ~Blocked(query.provider, query.date)
         /\ from < to /\ (to - from) % 30 = 0)
        => /\ got.throws = "none"
           /\ SlotsExpected(got.slots, from, to)
           /\ ClockMinutes(got.slots[1].startTime) = from
           /\ ClockMinutes(got.slots[Len(got.slots)].endTime) = to

\* C18: computeSlots returns the empty sequence when the date is blocked,
\* when the weekday's entry is not available, and when the weekday has no
\* entry, whatever hours are configured.
C18_NoSlotsWhenClosed ==
  (\/ Blocked(query.provider, query.date)
   \/ EntriesOn(query.provider, query.date) = {}
   \/ \E i \in EntriesOn(query.provider, query.date) :
        ~query.provider.workingDays[i].isAvailable)
  => LET got == getAvailableSlots(query.provider, query.date)
     IN  got.throws = "none" /\ got.slots = <<>>

\* C19: for any working hours, computeSlots returns floor((endTime -
\* startTime)/30) slots, each 30 minutes long and ending at or before
\* endTime (a trailing partial slot is dropped), and its loop terminates.
C19_WholeSlotsOnly ==
  \A i \in EntriesOn(query.provider, query.date) :
    LET wd == query.provider.workingDays[i]
        from == ClockMinutes(wd.startTime)
        to == ClockMinutes(wd.endTime)
        got == getAvailableSlots(query.provider, query.date)
    IN  (/\ wd.isAvailable /\ ~Blocked(query.provider, query.date)
         /\ from < to /\ (to - from) % 30 # 0)
        => /\ got.throws = "none"
           /\ SlotsExpected(got.slots, from, to)
           /\ \A k \in 1..Len(got.slots) :
                ClockMinutes(got.slots[k].endTime) <= to

\* C20: whenever create, confirmPayment, updateStatus, cancel or reschedule
\* answers its caller with an error, no field of any booking differs from
\* its value before the call.
C20_NoPartialCommit ==
  [][/\ \A u \in Users, pi \in RequestIds, m \in BOOLEAN :
          (/\ ConfirmPaymentResult(bookings, intents, pi, u, now, m) # "ok"
           /\ ConfirmPayment(u, pi, m))
          => bookings' = bookings
     /\ \A u \in Users, id \in RequestIds, st \in BookingStatuses,
           n \in Notes, m \in BOOLEAN :
          (/\ UpdateStatusResult(bookings, id, u, st, n, now, m) # "ok"
           /\ UpdateStatus(u, id, st, n, m))
          => bookings' = bookings
     /\ \A u \in Users, id \in RequestIds :
          (CancelResult(bookings, id, u, now) # "ok" /\ Cancel(u, id))
          => bookings' = bookings
     /\ \A u \in Users, id \in RequestIds, d \in RequestDates,
           t \in RequestTimes :
          (/\ RescheduleResult(bookings, id, u, d, t, now) # "ok"
           /\ Reschedule(u, id, d, t))
          => bookings' = bookings
     /\ \A u \in Users, p \in RequestProviders, sn \in RequestServices,
           d \in RequestDates, t \in RequestTimes :
          (/\ CreateResult(bookings, u, p, sn, d, t, now) # "ok"
           /\ Create(u, p, sn, d, t))
          => bookings' = bookings]_vars

OwnsProviderOf(u, b) == Providers[b.provider].user = u

\* C22: a status update changes a booking only when the caller owns the
\* provider the booking is with; a call by anyone else is answered Forbidden
\* and leaves status and providerNotes as they were; and the requested
\* status must be one of confirmed, in-progress, completed, cancelled,
\* no-show.
C22_OnlyOwningProvider ==
  \A u \in Users, id \in DOMAIN bookings, st \in BookingStatuses, n \in Notes :
    LET allowed == st \in {"confirmed", "in-progress", "completed",
                           "cancelled", "no-show"}
    IN  /\ ~OwnsProviderOf(u, bookings[id])
           => /\ ~UpdateStatusSaves(bookings, id, u, st, n, now)
              /\ allowed => \A m \in BOOLEAN :
                   UpdateStatusResult(bookings, id, u, st, n, now, m) = "Forbidden"
        /\ ~allowed
           => /\ ~UpdateStatusSaves(bookings, id, u, st, n, now)
              /\ \A m \in BOOLEAN :
                   UpdateStatusResult(bookings, id, u, st, n, now, m) # "ok"

OverlapTimes == {T(1, 2, 1, 5)}

\* the interval of a request at startTime for duration minutes meets the
\* interval [startTime, endTime) of b on b's date
Overlaps(b, date, startTime, duration) ==
  /\ date = b.appointmentDate
  /\ ClockMinutes(startTime) < ClockMinutes(b.endTime)
  /\ ClockMinutes(b.startTime) < ClockMinutes(startTime) + duration

\* C24: conflict detection compares start times only: a create whose
\* interval overlaps an active booking of the same provider, but whose
\* startTime differs from it, finds no conflict and succeeds, so that two
\* active bookings of one provider with overlapping intervals exist after it.
C24_OverlappingCreateSucceeds ==
  \A id \in DOMAIN bookings, u \in Users, t \in OverlapTimes :
    LET b == bookings[id]
    IN  \A sv \in ActiveServices(b.provider) :
          (/\ b.status \in ActiveStatuses
           /\ t # b.startTime
           /\ Overlaps(b, b.appointmentDate, t, sv.duration)
           /\ Offered(b.provider, b.appointmentDate, t)
           /\ b.appointmentDate >= now
           /\ Cardinality(DOMAIN bookings) < MaxBookings)
          => /\ findConflict(bookings, b.provider, b.appointmentDate, t, 0) = {}
             /\ CreateResult(bookings, u, b.provider, sv.name,
                             b.appointmentDate, t, now) = "ok"
             /\ LET bs == Created(bookings, u, b.provider, sv.name,
                                  b.appointmentDate, t, now)
                IN  \E j \in DOMAIN bs \ {id} :
                      /\ bs[j].provider = b.provider
                      /\ bs[j].status \in ActiveStatuses
                      /\ Overlaps(b, bs[j].appointmentDate, bs[j].startTime,
                                  bs[j].service.duration)

\* C25: for a confirmed booking whose appointment starts more than 2 hours
\* after now, a cancel by its customer succeeds and stores status =
\* cancelled, also when the appointment is later on the current calendar day
\* (the stored appointmentDate, the day's midnight, is then before now).
C25_CustomerCancelSucceeds ==
  \A id \in DOMAIN bookings :
    LET b == bookings[id]
    IN  (b.status = "confirmed" /\ LeadMinutes(b, now) > CancelHours * MinutesPerHour)
        => /\ CancelResult(bookings, id, b.customer, now) = "ok"
           /\ CancelledBooking(b, b.customer, now).status = "cancelled"

\* the sum of the amounts of the refunds the gateway was sent for booking id
RECURSIVE RefundTotal(_, _)
RefundTotal(log, id) ==
  IF log = <<>> THEN 0
  ELSE (IF Head(log).booking = id THEN Head(log).amount ELSE 0)
       + RefundTotal(Tail(log), id)

\* C26: the refunds sent to the gateway for a booking never add up to more
\* than the booking's payment.amount, and once refundStatus = processed a
\* further refund call sends the gateway nothing.
C26_RefundsWithinPayment ==
  \A id \in DOMAIN bookings :
    /\ RefundTotal(refunds, id) <= bookings[id].payment.amount
    /\ bookings[id].cancellation.refundStatus = "processed"
         => \A u \in Users : ~RefundSent(bookings, id, u, now)

\* C27: a refund moves money only for a booking whose status is cancelled,
\* and the amount it sends is the cancellation.refundAmount recorded when the
\* booking was cancelled; on any other booking it sends nothing and changes
\* nothing.
C27_RefundOnlyCancelled ==
  \A id \in DOMAIN bookings, u \in Users :
    /\ RefundSent(bookings, id, u, now)
         => /\ bookings[id].status = "cancelled"
            /\ calculateRefund(bookings[id], now)
                 = bookings[id].cancellation.refundAmount
    /\ bookings[id].status # "cancelled"
         => \A g \in BOOLEAN : RefundResult(bookings, id, u, now, g) # "ok"

\* C28: a booking whose status is not pending is never set back to pending,
\* and a payment.status that has left pending never returns to it, whatever
\* request is served.
C28_NeverBackToPending ==
  [][\A id \in DOMAIN bookings :
       /\ bookings[id].status # "pending"
            => bookings'[id].status # "pending"
       /\ bookings[id].payment.status # "pending"
            => bookings'[id].payment.status # "pending"]_vars

\* a paid, confirmed booking whose provider asks for status pending and is
\* turned away
C28_Witness ==
  \E id \in DOMAIN bookings :
    /\ bookings[id].status = "confirmed"
    /\ bookings[id].payment.status = "succeeded"
    /\ UpdateStatusSaves(bookings, id, Providers[bookings[id].provider].user,
                         "completed", "none", now)
    /\ ~UpdateStatusSaves(bookings, id, Providers[bookings[id].provider].user,
                          "pending", "none", now)

\* a booking has u as its customer, or a provider document of u as its
\* provider
HasBookingWith(u) ==
  \E i \in DOMAIN bookings :
    \/ bookings[i].customer = u
    \/ bookings[i].provider \in findProviderByUser(providerUser, u)

\* C29: the administrator's deleteUser is rejected, and deletes nothing,
\* whenever a booking has the user as its customer or the user's provider
\* profile as its provider; so the customer of every booking and the user of
\* every booking's provider are existing users.
C29_DeleteKeepsReferences ==
  /\ \A a, u \in AccountNames :
       (findUser(users, u) /\ HasBookingWith(u))
       => DeleteUserResult(users, bookings, a, u) # "ok"
  /\ \A i \in DOMAIN bookings :
       /\ findUser(users, bookings[i].customer)
       /\ findUser(users, providerUser[bookings[i].provider])

\* C30: after any sequence of user and provider registrations, a failure
\* between the two writes of a provider registration included, a user has
\* role provider exactly when a provider document exists for the user, and
\* no user has more than one provider document.
C30_RoleMatchesProviderRecord ==
  \A u \in DOMAIN users :
    findUser(users, u)
    => /\ users[u] = "provider" <=> findProviderByUser(providerUser, u) # {}
       /\ Cardinality(findProviderByUser(providerUser, u)) <= 1

====
